---- MODULE Spec2Model ----
(***************************************************************************)
(* hb: a concurrent HTTP load generator.                                   *)
(*                                                                         *)
(* The model follows one run of the program: the command line is parsed    *)
(* (config.rs), main builds the request generator over the list the drawn  *)
(* index selects from (main.rs), run_test spawns `concurrency` workers     *)
(* (workers/mod.rs), every worker loops over RequestGenerator::next()      *)
(* (requestgen/mod.rs, requestgen/indexseq.rs, requestgen/timedelay.rs),   *)
(* executes the request, classifies the outcome into its local             *)
(* BenchResult, and hands the result over; main joins the workers and      *)
(* merges the results.                                                     *)
(***************************************************************************)
EXTENDS Integers, Sequences, FiniteSets, TLC

(***************************************************************************)
(* Bounds of the model.                                                    *)
(***************************************************************************)
MaxRequests == 2
MaxConcurrency == 2
MaxUrls == 2
MaxPayloads == 2
\* the generator runs: a larger budget over a larger list, against a server that answers
GenMaxRequests == 3
GenMaxUrls == 2
\* the report runs: one worker, a budget that gives every url several samples
ReportMaxRequests == 4
ReportMaxUrls == 2
\* the delay runs: every distribution with every delay up to MaxDelayMs milliseconds
MaxDelayMs == 2
DelayMaxRequests == 2
\* the slow runs: up to SlowMaxRequests requests to one URL
SlowMaxRequests == 2

(***************************************************************************)
(* Values the environment can produce, sampled.                            *)
(***************************************************************************)
\* -t <ms> -d <distribution>: the configured delays
DelayConfigs == {<<0, "Constant">>, <<0, "Uniform">>}
\* elapsed milliseconds a completed request can measure (sub-millisecond = 0)
LatenciesMs == {0, 1}
\* status codes a server can answer with
StatusCodes == {200, 404}
\* elapsed milliseconds of the report runs: apart enough to tell the targets from one another
ReportLatenciesMs == {10, 21, 150}

\* response times around the upper end of the latency histogram
SlowLatenciesMs == {1, 100001, 131071, 131072}
\* -s <percentile>: the slow percentiles asked for
SlowPercentiles == {50, 100}

HttpMethods == {"Get", "Post", "Put"}
RequestOrders == {"Sequential", "Random"}
DelayDistributions == {"Constant", "Uniform", "NegativeExponential"}

\* Option::None of next_index(); a panic unwinding out of a call
None == -1
Panic == -2

Workers == 1..MaxConcurrency

\* the holder of a Mutex that no thread holds, and the main thread as a holder
Unlocked == 0
MainThread == -3

VARIABLES
    phase,         \* main thread: "cmdline", "rejected", "setup", "running", "merged", "aborted",
                   \* "merging", "reported", "report_panicked"
    config,        \* config::Config
    urls_len,      \* urls.len()
    payloads_len,  \* payloads.len()
    index_limit,   \* limit of the index supplier
    count,         \* the supplier's AtomicUsize (count / next)
    progress,      \* position of the progress bar
    pc,            \* where each worker thread is
    hb_request,    \* the request a worker drew: url_index, sleep
    ureq_response, \* what the worker's last call returned
    server,        \* the tested server and network of this run: "healthy" or "faulty"
    result,        \* each worker's local BenchResult
    results,       \* run_test: the shared Vec of finished workers' results
    joined,        \* run_test: number of workers main has joined
    merged,        \* run_test: the summary it returns
    panic_cause,   \* why a worker thread panicked
    calls,         \* history: every next_index() call, in the order of the atomic counter
    sent,          \* history: the requests each worker executed: url and payload positions
    progress_lock, \* who holds the Mutex of the progress bar: Unlocked or a worker
    results_lock,  \* who holds the Mutex of results: Unlocked, a worker or MainThread
    report         \* what main printed: the slow percentile and the slow report's lines

vars == <<phase, config, urls_len, payloads_len, index_limit, count, progress, pc,
          hb_request, ureq_response, server, result, results, joined, merged, panic_cause, calls,
          sent, progress_lock, results_lock, report>>

(***************************************************************************)
(* BenchResult (workers/mod.rs)                                            *)
(***************************************************************************)
\* Histogram<u64>: the count recorded for each value
Histogram_new == [v \in {} |-> 0]

\* Histogram::new_with_bounds(1, 1000 * 100, 2): the highest value asked for
HistogramHigh == 100000

\* with 2 significant figures and a lowest value of 1, a bucket has 256 sub-buckets
SubBucketCount == 256

\* the buckets double the range until it is above `high`: the smallest value the
\* counts array does not cover
RECURSIVE SmallestUntrackable(_)
SmallestUntrackable(covered) ==
    IF covered > HistogramHigh THEN covered ELSE SmallestUntrackable(2 * covered)

\* record(value) is an Err(ValueOutOfRangeResizeDisabled) outside the counts array
\* (auto-resize is off), and `histogram += value` unwraps it
Histogram_record_fails(v) == v >= SmallestUntrackable(SubBucketCount)

\* the width of the sub-bucket a value falls in
RECURSIVE UnitOf(_, _)
UnitOf(v, unit) == IF v < SubBucketCount * unit THEN unit ELSE UnitOf(v, 2 * unit)

\* the highest value the histogram cannot tell from v
highest_equivalent(v) == LET unit == UnitOf(v, 1) IN (v \div unit) * unit + unit - 1

Histogram_record(h, v) ==
    IF v \in DOMAIN h THEN [h EXCEPT ![v] = @ + 1] ELSE h @@ (v :> 1)

Histogram_add(h, other) ==
    [v \in DOMAIN h \cup DOMAIN other |->
        (IF v \in DOMAIN h THEN h[v] ELSE 0) + (IF v \in DOMAIN other THEN other[v] ELSE 0)]

RECURSIVE SumOver(_, _)
SumOver(f, S) ==
    IF S = {} THEN 0
    ELSE LET x == CHOOSE y \in S : TRUE IN f[x] + SumOver(f, S \ {x})

\* Histogram::len(): number of recorded samples
Histogram_len(h) == SumOver(h, DOMAIN h)

BenchResult_new ==
    [status |-> [c \in {} |-> 0],
     request_errors |-> 0,
     response_errors |-> 0,
     latency |-> Histogram_new,
     request_times |-> <<>>]

\* *map.entry(code).or_insert(0) += n
EntryAdd(map, code, n) ==
    IF code \in DOMAIN map THEN [map EXCEPT ![code] = @ + n] ELSE map @@ (code :> n)

RECURSIVE AddStatus(_, _, _)
AddStatus(summary_status, self_status, codes) ==
    IF codes = {} THEN summary_status
    ELSE LET code == CHOOSE c \in codes : TRUE
         IN AddStatus(EntryAdd(summary_status, code, self_status[code]),
                      self_status, codes \ {code})

\* summary.request_errors = self.request_errors: assigned, not added
add_to_Assigns(self, summary) ==
    [status |-> AddStatus(summary.status, self.status, DOMAIN self.status),
     request_errors |-> self.request_errors,
     response_errors |-> summary.response_errors + self.response_errors,
     latency |-> Histogram_add(summary.latency, self.latency),
     request_times |-> summary.request_times \o self.request_times]

\* self.add_to(&mut summary): the summary afterwards
add_to(self, summary) ==
    [status |-> AddStatus(summary.status, self.status, DOMAIN self.status),
     request_errors |-> summary.request_errors + self.request_errors,
     response_errors |-> summary.response_errors + self.response_errors,
     latency |-> Histogram_add(summary.latency, self.latency),
     request_times |-> summary.request_times \o self.request_times]

\* self.add_to(&mut summary): self afterwards, its histogram replaced by an empty one
\* and its request_times moved out
add_to_self(self) ==
    [self EXCEPT !.latency = Histogram_new, !.request_times = <<>>]

\* the loop over the results stops after the first
MergeResults_First(rs, summary) ==
    IF rs = <<>> THEN summary ELSE add_to(Head(rs), summary)

RECURSIVE MergeResults(_, _)
MergeResults(rs, summary) ==
    IF rs = <<>> THEN summary
    ELSE MergeResults(Tail(rs), add_to(Head(rs), summary))

(***************************************************************************)
(* Index suppliers (requestgen/indexseq.rs).  The argument is the value    *)
(* fetch_add returned; the result is the set of values the call can        *)
(* return.  A remainder by zero and an empty random range panic.           *)
(***************************************************************************)
\* index <= self.requests: one value too many
SequentialIndex_next_index_OffByOne(index, limit, requests) ==
    IF index <= requests
    THEN (IF limit = 0 THEN {Panic} ELSE {index % limit})
    ELSE {None}

\* index % self.requests: the remainder by the wrong field
SequentialIndex_next_index_ModRequests(index, limit, requests) ==
    IF index < requests
    THEN (IF limit = 0 THEN {Panic} ELSE {index % requests})
    ELSE {None}

\* index != self.requests: exhausted at the budget only, not beyond it
SequentialIndex_next_index_NotEqual(index, limit, requests) ==
    IF index /= requests
    THEN (IF limit = 0 THEN {Panic} ELSE {index % limit})
    ELSE {None}

SequentialIndex_next_index(index, limit, requests) ==
    IF index < requests
    THEN (IF limit = 0 THEN {Panic} ELSE {index % limit})
    ELSE {None}

\* count <= self.requests: one value too many
RandomIndex_next_index_OffByOne(cnt, limit, requests) ==
    IF cnt <= requests
    THEN (IF limit = 0 THEN {Panic} ELSE 0..(limit - 1))
    ELSE {None}

\* gen_range(0..=self.limit): the limit included
RandomIndex_next_index_Inclusive(cnt, limit, requests) ==
    IF cnt < requests
    THEN (IF limit = 0 THEN {Panic} ELSE 0..limit)
    ELSE {None}

RandomIndex_next_index(cnt, limit, requests) ==
    IF cnt < requests
    THEN (IF limit = 0 THEN {Panic} ELSE 0..(limit - 1))
    ELSE {None}

\* the arms of the match on the order exchanged
create_supplier_Swapped(order, fetched, limit, requests) ==
    IF order = "Sequential"
    THEN RandomIndex_next_index(fetched, limit, requests)
    ELSE SequentialIndex_next_index(fetched, limit, requests)

create_supplier(order, fetched, limit, requests) ==
    IF order = "Sequential"
    THEN SequentialIndex_next_index(fetched, limit, requests)
    ELSE RandomIndex_next_index(fetched, limit, requests)

(***************************************************************************)
(* Delay suppliers (requestgen/timedelay.rs), in microseconds.  A call     *)
(* gives the set of values it can return; the random draws are sampled.    *)
(***************************************************************************)
\* thread_rng().gen_range(0, bound): the two ends of the range and its middle
SampledBelow(bound) == {0, bound \div 2, bound - 1}

\* thread_rng().gen_range(0f64, 1f64), in millionths: the low end of the range, which
\* the generator can return, 1/e, and the largest value below 1
SampledU == {0, 367879, 999999}

\* -ln(u) in thousandths, for the sampled u above 0
NegLnMilli(u) == IF u = 367879 THEN 1000 ELSE 0

\* u64::MAX microseconds, what a cast of +infinity to u64 gives; the largest integer
\* of the model stands for it
SaturatedUs == 2147483647

delay_us_of(delay_ms) == delay_ms * 1000

\* gen_range(0, bound_us + 1): the bound included
UniformDelay_next_delay_Inclusive(bound_us) == SampledBelow(bound_us + 1)

\* the delay varies from call to call
ConstantDelay_next_delay_Jitter(delay_us) == {delay_us, delay_us + 1}

ConstantDelay_next_delay(delay_us) == {delay_us}

\* gen_range(0, bound_us) panics on the empty range
UniformDelay_next_delay(bound_us) ==
    IF bound_us = 0 THEN {Panic} ELSE SampledBelow(bound_us)

\* (z_neg * u.ln()) as u64, z_neg = -delay_us.  ln(0) is -infinity: times a negative
\* z_neg it is +infinity, which the cast saturates; times z_neg = -0.0 it is NaN,
\* which the cast turns into 0
NegativeExponentialDelay_next_delay(delay_us) ==
    {IF u = 0
     THEN (IF delay_us = 0 THEN 0 ELSE SaturatedUs)
     ELSE (delay_us * NegLnMilli(u)) \div 1000 : u \in SampledU}

create_delay_supplier(delay_ms, distrib) ==
    CASE distrib = "Constant" -> ConstantDelay_next_delay(delay_us_of(delay_ms))
      [] distrib = "Uniform" -> UniformDelay_next_delay(delay_us_of(delay_ms))
      [] OTHER -> NegativeExponentialDelay_next_delay(delay_us_of(delay_ms))

(***************************************************************************)
(* Setup (config.rs, main.rs)                                              *)
(***************************************************************************)
IsWrite(http_method) == http_method \in {"Post", "Put"}

\* the payloads are asserted, the number of urls is not
from_cmdline_accepts_PayloadsOnly(http_method, n_urls, n_payloads) ==
    IsWrite(http_method) => n_payloads /= 0

\* the assertions at the end of Config::from_cmdline
from_cmdline_accepts(http_method, n_urls, n_payloads) ==
    IsWrite(http_method) => (n_payloads /= 0 /\ n_urls = 1)

\* the arms of the match on the method exchanged
distinct_requests_count_Swapped(http_method, n_urls, n_payloads) ==
    IF IsWrite(http_method) THEN n_urls ELSE n_payloads

\* main: the number of distinct requests the index selects from
distinct_requests_count(http_method, n_urls, n_payloads) ==
    IF IsWrite(http_method) THEN n_payloads ELSE n_urls

NoRequest == [url_index |-> None, sleep |-> 0]
NoResponse == [kind |-> "none", status |-> 0, body_ok |-> TRUE, elapsed_ms |-> 0]

\* what agent.request(..).call() / send_string() can return, and the body read after it:
\* ureq gives Ok for a status below 400, Error::Status from 400 on, Error::Transport
\* when no response arrives
Responses ==
    {[kind |-> "Ok", status |-> s, body_ok |-> b, elapsed_ms |-> ms] :
        s \in {c \in StatusCodes : c < 400}, b \in BOOLEAN, ms \in LatenciesMs}
    \cup {[kind |-> "Status", status |-> s, body_ok |-> TRUE, elapsed_ms |-> 0] :
        s \in {c \in StatusCodes : c >= 400}}
    \cup {[kind |-> "Transport", status |-> 0, body_ok |-> TRUE, elapsed_ms |-> 0]}

\* a server that answers every request with 200 and a body that reads to its end
Healthy == {r \in Responses : r.kind = "Ok" /\ r.status = 200 /\ r.body_ok /\ r.elapsed_ms = 1}

\* a server that answers every request with 200, after a time that varies
Varied ==
    {[kind |-> "Ok", status |-> 200, body_ok |-> TRUE, elapsed_ms |-> ms] :
        ms \in ReportLatenciesMs}

\* a server that answers every request with 200, at once or after a long time
Slow ==
    {[kind |-> "Ok", status |-> 200, body_ok |-> TRUE, elapsed_ms |-> ms] :
        ms \in SlowLatenciesMs}

\* what the call can return against the kind of server of this run
Answers(kind) ==
    CASE kind = "healthy" -> Healthy
      [] kind = "varied" -> Varied
      [] kind = "slow" -> Slow
      [] OTHER -> Responses

\* nothing printed yet
NoReport == [slow_percentile |-> None, lower_bound |-> 0, lines |-> <<>>]

Configs(max_requests, methods, delays) ==
    {c \in [concurrency : 1..MaxConcurrency,
            requests : 0..max_requests,
            order : RequestOrders,
            delay_ms : {d[1] : d \in delays},
            delay_distrib : {d[2] : d \in delays},
            http_method : methods] : <<c.delay_ms, c.delay_distrib>> \in delays}

\* the state when main starts, for a command line and a server out of the given sets
InitOver(configs, url_counts, payload_counts, servers) ==
    /\ phase = "cmdline"
    /\ config \in configs
    /\ urls_len \in url_counts
    /\ payloads_len \in payload_counts
    /\ server \in servers
    /\ index_limit = 0
    /\ count = 0
    /\ progress = 0
    /\ pc = [w \in Workers |-> "idle"]
    /\ hb_request = [w \in Workers |-> NoRequest]
    /\ ureq_response = [w \in Workers |-> NoResponse]
    /\ result = [w \in Workers |-> BenchResult_new]
    /\ results = <<>>
    /\ joined = 0
    /\ merged = BenchResult_new
    /\ panic_cause = [w \in Workers |-> "none"]
    /\ calls = <<>>
    /\ sent = [w \in Workers |-> <<>>]
    /\ progress_lock = Unlocked
    /\ results_lock = Unlocked
    /\ report = NoReport

\* any command line, against a healthy server
Init ==
    InitOver(Configs(MaxRequests, HttpMethods, DelayConfigs),
             0..MaxUrls, 0..MaxPayloads, {"healthy"})

\* GET of one URL, against a server and a network that can fail
InitFaulty ==
    InitOver(Configs(MaxRequests, {"Get"}, {<<0, "Constant">>}),
             {1}, {0}, {"faulty"})

\* GET by one worker, against a server whose response times vary
InitReport ==
    InitOver({c \in Configs(ReportMaxRequests, {"Get"}, {<<0, "Constant">>}) :
                 c.concurrency = 1},
             0..ReportMaxUrls, {0}, {"varied"})

\* GET of one URL with every delay configuration, against a healthy server
InitDelay ==
    InitOver(Configs(DelayMaxRequests, {"Get"}, (0..MaxDelayMs) \X DelayDistributions),
             {1}, {0}, {"healthy"})

\* GET of one URL, against a server that can take very long to answer
InitSlow ==
    InitOver(Configs(SlowMaxRequests, {"Get"}, {<<0, "Constant">>}),
             {1}, {0}, {"slow"})

\* GET over a longer list with a larger budget, against a healthy server
InitGenerator ==
    InitOver(Configs(GenMaxRequests, {"Get"}, {<<0, "Constant">>}),
             0..GenMaxUrls, {0}, {"healthy"})

\* Config::from_cmdline: the POST/PUT assertions
FromCmdline ==
    /\ phase = "cmdline"
    /\ phase' = IF from_cmdline_accepts(config.http_method, urls_len, payloads_len)
                THEN "setup" ELSE "rejected"
    /\ UNCHANGED <<config, urls_len, payloads_len, index_limit, count, progress, pc,
                   hb_request, ureq_response, server, result, results, joined, merged,
                   panic_cause, calls, sent, report, progress_lock, results_lock>>

\* main: build the generator; run_test: spawn the workers
Spawn ==
    /\ phase = "setup"
    /\ phase' = "running"
    /\ index_limit' = distinct_requests_count(config.http_method, urls_len, payloads_len)
    /\ pc' = [w \in Workers |-> IF w <= config.concurrency THEN "draw" ELSE "idle"]
    /\ UNCHANGED <<config, urls_len, payloads_len, count, progress,
                   hb_request, ureq_response, server, result, results, joined, merged,
                   panic_cause, calls, sent, report, progress_lock, results_lock>>

\* the largest value of the AtomicUsize counter (stands for usize::MAX)
UsizeMax == 2147483647

\* AtomicUsize::fetch_add(1): the stored value moves by one and wraps at the word
fetch_add(v) == IF v = UsizeMax THEN 0 ELSE v + 1

(***************************************************************************)
(* RequestGenerator::next (requestgen/mod.rs), in its two steps on shared  *)
(* state: the atomic fetch_add of the index supplier, then the delay draw  *)
(* and the progress bar's increment under its mutex.                       *)
(***************************************************************************)
\* the loop of run_worker goes on drawing after a None
Draw_KeepsDrawing(w) ==
    /\ phase = "running"
    /\ pc[w] = "draw"
    /\ count' = count + 1
    /\ \E r \in create_supplier(config.order, count, index_limit, config.requests) :
        /\ calls' = Append(calls, [c |-> count, r |-> r])
        /\ IF r = None
           THEN /\ count < MaxRequests + MaxConcurrency + 2
                /\ UNCHANGED <<pc, hb_request, panic_cause>>
           ELSE IF r = Panic
           THEN /\ pc' = [pc EXCEPT ![w] = "panicked"]
                /\ panic_cause' = [panic_cause EXCEPT ![w] = "next_index"]
                /\ UNCHANGED hb_request
           ELSE /\ pc' = [pc EXCEPT ![w] = "delay"]
                /\ hb_request' = [hb_request EXCEPT ![w] = [url_index |-> r, sleep |-> 0]]
                /\ UNCHANGED panic_cause
    /\ UNCHANGED <<phase, config, urls_len, payloads_len, index_limit, progress,
                   ureq_response, server, result, results, joined, merged, sent, report, progress_lock, results_lock>>

Draw(w) ==
    /\ phase = "running"
    /\ pc[w] = "draw"
    /\ count' = fetch_add(count)
    /\ \E r \in create_supplier(config.order, count, index_limit, config.requests) :
        /\ calls' = Append(calls, [c |-> count, r |-> r])
        /\ IF r = None
           THEN /\ pc' = [pc EXCEPT ![w] = "draining"]
                /\ UNCHANGED <<hb_request, panic_cause>>
           ELSE IF r = Panic
           THEN /\ pc' = [pc EXCEPT ![w] = "panicked"]
                /\ panic_cause' = [panic_cause EXCEPT ![w] = "next_index"]
                /\ UNCHANGED hb_request
           ELSE /\ pc' = [pc EXCEPT ![w] = "delay"]
                /\ hb_request' = [hb_request EXCEPT ![w] = [url_index |-> r, sleep |-> 0]]
                /\ UNCHANGED panic_cause
    /\ UNCHANGED <<phase, config, urls_len, payloads_len, index_limit, progress,
                   ureq_response, server, result, results, joined, merged, sent, report, progress_lock, results_lock>>

\* the delay is drawn, then self.progress.lock() is taken once no thread holds it
NextDelay(w) ==
    /\ phase = "running"
    /\ pc[w] = "delay"
    /\ \E d \in create_delay_supplier(config.delay_ms, config.delay_distrib) :
        IF d = Panic
        THEN /\ pc' = [pc EXCEPT ![w] = "panicked"]
             /\ panic_cause' = [panic_cause EXCEPT ![w] = "next_delay"]
             /\ UNCHANGED <<hb_request, progress_lock>>
        ELSE /\ progress_lock = Unlocked
             /\ progress_lock' = w
             /\ pc' = [pc EXCEPT ![w] = "progress"]
             /\ hb_request' = [hb_request EXCEPT ![w].sleep = d]
             /\ UNCHANGED panic_cause
    /\ UNCHANGED <<phase, config, urls_len, payloads_len, index_limit, count, progress,
                   ureq_response, server, result, results, joined, merged, calls, sent, report,
                   results_lock>>

\* the guard of the progress bar is kept through the sleep and the call
BumpProgress_KeepsLock(w) ==
    /\ phase = "running"
    /\ pc[w] = "progress"
    /\ progress' = progress + 1
    /\ pc' = [pc EXCEPT ![w] = "sleep"]
    /\ UNCHANGED <<phase, config, urls_len, payloads_len, index_limit, count,
                   hb_request, ureq_response, server, result, results, joined, merged,
                   panic_cause, calls, sent, report, progress_lock, results_lock>>

\* the progress bar is not moved
BumpProgress_NoInc(w) ==
    /\ phase = "running"
    /\ pc[w] = "progress"
    /\ progress_lock' = Unlocked
    /\ pc' = [pc EXCEPT ![w] = "sleep"]
    /\ UNCHANGED <<phase, config, urls_len, payloads_len, index_limit, count, progress,
                   hb_request, ureq_response, server, result, results, joined, merged,
                   panic_cause, calls, sent, report, results_lock>>

\* progress.inc(1) under the lock; the guard is dropped as the closure returns
BumpProgress(w) ==
    /\ phase = "running"
    /\ pc[w] = "progress"
    /\ progress' = progress + 1
    /\ progress_lock' = Unlocked
    /\ pc' = [pc EXCEPT ![w] = "sleep"]
    /\ UNCHANGED <<phase, config, urls_len, payloads_len, index_limit, count,
                   hb_request, ureq_response, server, result, results, joined, merged,
                   panic_cause, calls, sent, report, results_lock>>

(***************************************************************************)
(* run_worker (workers/mod.rs)                                             *)
(***************************************************************************)
\* thread::sleep(hb_request.sleep) when the delay is not zero; a sleep of u64::MAX
\* microseconds does not end
Sleep(w) ==
    /\ phase = "running"
    /\ pc[w] = "sleep"
    /\ hb_request[w].sleep /= SaturatedUs
    /\ pc' = [pc EXCEPT ![w] = "call"]
    /\ UNCHANGED <<phase, config, urls_len, payloads_len, index_limit, count, progress,
                   hb_request, ureq_response, server, result, results, joined, merged,
                   panic_cause, calls, sent, report, progress_lock, results_lock>>

\* the slice accesses that resolve the url and the payload are in range
ResolveInRange(http_method, url_index, n_urls, n_payloads) ==
    IF IsWrite(http_method)
    THEN 0 < n_urls /\ url_index < n_payloads
    ELSE url_index < n_urls

\* the payload every request is sent with
ResolvePayload_First(http_method, url_index) ==
    IF IsWrite(http_method) THEN 0 ELSE None

\* the position in urls of the url the request goes to: urls[0] for POST and PUT
ResolveUrl(http_method, url_index) ==
    IF IsWrite(http_method) THEN 0 ELSE url_index

\* the position in payloads of the body sent with it: payloads[url_index] for POST
\* and PUT, no body otherwise
ResolvePayload(http_method, url_index) ==
    IF IsWrite(http_method) THEN url_index ELSE None

\* match ureq_response: the arm that panics
MatchPanics(resp) == resp.kind = "Transport"

\* match ureq_response: the tallies of the arms that return
Tally(res, resp) ==
    IF resp.kind = "Ok"
    THEN [res EXCEPT !.status = EntryAdd(@, resp.status, 1),
                     !.response_errors = IF resp.body_ok THEN @ ELSE @ + 1]
    ELSE [res EXCEPT !.request_errors = @ + 1]

\* the duration is measured only when the body was read to its end
Duration_BodyRead(resp) == IF resp.kind = "Ok" /\ resp.body_ok THEN resp.elapsed_ms ELSE 0

\* let mut duration = 0, set in the Ok arm only
Duration(resp) == IF resp.kind = "Ok" THEN resp.elapsed_ms ELSE 0

\* result.latency += duration; result.request_times.push((url_index, duration))
Track(res, url_index, duration) ==
    [res EXCEPT !.latency = Histogram_record(@, duration),
                !.request_times = Append(@, <<url_index, duration>>)]

\* the request is resolved and executed; its response arrives, is matched and tracked
Call(w) ==
    /\ phase = "running"
    /\ pc[w] = "call"
    /\ IF ResolveInRange(config.http_method, hb_request[w].url_index, urls_len, payloads_len)
       THEN \E resp \in Answers(server) :
              /\ ureq_response' = [ureq_response EXCEPT ![w] = resp]
              /\ sent' = [sent EXCEPT ![w] = Append(@,
                     [url |-> ResolveUrl(config.http_method, hb_request[w].url_index),
                      payload |-> ResolvePayload(config.http_method, hb_request[w].url_index)])]
              /\ IF MatchPanics(resp)
                 THEN /\ pc' = [pc EXCEPT ![w] = "panicked"]
                      /\ panic_cause' = [panic_cause EXCEPT ![w] = "transport"]
                      /\ UNCHANGED <<result, hb_request>>
                 ELSE IF Histogram_record_fails(Duration(resp))
                 THEN /\ pc' = [pc EXCEPT ![w] = "panicked"]
                      /\ panic_cause' = [panic_cause EXCEPT ![w] = "record"]
                      /\ UNCHANGED <<result, hb_request>>
                 ELSE /\ result' = [result EXCEPT ![w] =
                              Track(Tally(@, resp), hb_request[w].url_index, Duration(resp))]
                      /\ pc' = [pc EXCEPT ![w] = "draw"]
                      /\ hb_request' = [hb_request EXCEPT ![w] = NoRequest]
                      /\ UNCHANGED panic_cause
       ELSE /\ pc' = [pc EXCEPT ![w] = "panicked"]
            /\ panic_cause' = [panic_cause EXCEPT ![w] = "index_out_of_bounds"]
            /\ UNCHANGED <<ureq_response, result, hb_request, sent>>
    /\ UNCHANGED <<phase, config, urls_len, payloads_len, index_limit, count, progress,
                   server, results, joined, merged, calls, report, progress_lock, results_lock>>

\* the result is handed over inside the loop, which then goes on drawing
Push_Resumes(w) ==
    /\ phase = "running"
    /\ pc[w] = "draining"
    /\ results_lock = w
    /\ Len(results) < MaxConcurrency
    /\ results' = Append(results, result[w])
    /\ results_lock' = Unlocked
    /\ pc' = [pc EXCEPT ![w] = "draw"]
    /\ UNCHANGED <<phase, config, urls_len, payloads_len, index_limit, count, progress,
                   hb_request, ureq_response, server, result, joined, merged, panic_cause,
                   calls, sent, report, progress_lock>>

\* run_worker has returned its result; results.lock() is taken once no thread holds it
LockResults(w) ==
    /\ phase = "running"
    /\ pc[w] = "draining"
    /\ results_lock = Unlocked
    /\ results_lock' = w
    /\ UNCHANGED <<phase, config, urls_len, payloads_len, index_limit, count, progress, pc,
                   hb_request, ureq_response, server, result, results, joined, merged,
                   panic_cause, calls, sent, report, progress_lock>>

\* results.push(result) under the lock; the guard is dropped as the thread ends
Push(w) ==
    /\ phase = "running"
    /\ pc[w] = "draining"
    /\ results_lock = w
    /\ results' = Append(results, result[w])
    /\ results_lock' = Unlocked
    /\ pc' = [pc EXCEPT ![w] = "done"]
    /\ UNCHANGED <<phase, config, urls_len, payloads_len, index_limit, count, progress,
                   hb_request, ureq_response, server, result, joined, merged, panic_cause,
                   calls, sent, report, progress_lock>>

(***************************************************************************)
(* run_test (workers/mod.rs): join the workers in spawn order, then merge  *)
(***************************************************************************)
Join ==
    /\ phase = "running"
    /\ joined < config.concurrency
    /\ pc[joined + 1] = "done"
    /\ joined' = joined + 1
    /\ UNCHANGED <<phase, config, urls_len, payloads_len, index_limit, count, progress, pc,
                   hb_request, ureq_response, server, result, results, merged, panic_cause, calls, sent, report, progress_lock, results_lock>>

\* worker.join().unwrap() on a worker that panicked
JoinPanicked ==
    /\ phase = "running"
    /\ joined < config.concurrency
    /\ pc[joined + 1] = "panicked"
    /\ phase' = "aborted"
    /\ UNCHANGED <<config, urls_len, payloads_len, index_limit, count, progress, pc,
                   hb_request, ureq_response, server, result, results, joined, merged,
                   panic_cause, calls, sent, report, progress_lock, results_lock>>

\* the merge goes ahead without results.lock()
LockMerge_NoLock ==
    /\ phase = "running"
    /\ joined = config.concurrency
    /\ phase' = "merging"
    /\ UNCHANGED <<config, urls_len, payloads_len, index_limit, count, progress, pc,
                   hb_request, ureq_response, server, result, results, joined, merged,
                   panic_cause, calls, sent, report, progress_lock, results_lock>>

\* every worker is joined: BenchResult::new(), then results.lock()
LockMerge ==
    /\ phase = "running"
    /\ joined = config.concurrency
    /\ results_lock = Unlocked
    /\ results_lock' = MainThread
    /\ phase' = "merging"
    /\ UNCHANGED <<config, urls_len, payloads_len, index_limit, count, progress, pc,
                   hb_request, ureq_response, server, result, results, joined, merged,
                   panic_cause, calls, sent, report, progress_lock>>

\* the merge loop under the lock; the guard is dropped as run_test returns
Merge ==
    /\ phase = "merging"
    /\ merged' = MergeResults(results, BenchResult_new)
    /\ results' = [i \in DOMAIN results |-> add_to_self(results[i])]
    /\ results_lock' = Unlocked
    /\ phase' = "merged"
    /\ UNCHANGED <<config, urls_len, payloads_len, index_limit, count, progress, pc,
                   hb_request, ureq_response, server, result, joined, panic_cause,
                   calls, sent, report, progress_lock>>

(***************************************************************************)
(* The reports (main.rs).  Histogram::value_at_percentile is the library's: *)
(* the value of the sample at rank ceil(percentile/100 * total), at least   *)
(* rank 1, and 0 for an empty histogram; the histogram of BenchResult::new  *)
(* keeps values below 256 exactly and returns the highest equivalent value  *)
(* above.                                                                   *)
(***************************************************************************)
CountAtPercentile(total, percentile) ==
    LET c == (percentile * total + 99) \div 100 IN IF c < 1 THEN 1 ELSE c

CumulativeTo(h, v) == SumOver(h, {x \in DOMAIN h : x <= v})

value_at_percentile(h, percentile) ==
    IF DOMAIN h = {} THEN 0
    ELSE LET target == CountAtPercentile(Histogram_len(h), percentile)
         IN highest_equivalent(CHOOSE v \in DOMAIN h :
                /\ CumulativeTo(h, v) >= target
                /\ \A x \in DOMAIN h : x < v => CumulativeTo(h, x) < target)

\* url_stats[url]: the durations pushed for one url, in the order of request_times
DurationsOf(request_times, u) ==
    LET own == SelectSeq(request_times, LAMBDA e : e[1] = u)
    IN [i \in DOMAIN own |-> own[i][2]]

\* the fold over the durations of one url: <<min, max, sum>>
RECURSIVE FoldStats(_)
FoldStats(durations) ==
    IF Len(durations) = 1
    THEN <<durations[1], durations[1], durations[1]>>
    ELSE LET rest == FoldStats(Tail(durations))
             d == Head(durations)
         IN <<IF d < rest[1] THEN d ELSE rest[1],
              IF d > rest[2] THEN d ELSE rest[2],
              d + rest[3]>>

\* max > lower_bound: a target at the cutoff is left out
IsSlow_Strict(max, lower_bound) == max > lower_bound

\* if max < lower_bound { return None; }
IsSlow(max, lower_bound) == ~(max < lower_bound)

ReportLine(request_times, u) ==
    LET durations == DurationsOf(request_times, u)
        stats == FoldStats(durations)
    IN [url |-> u,
        count |-> Len(durations),
        min |-> stats[1],
        max |-> stats[2],
        avg |-> stats[3] \div Len(durations)]

\* lines.sort_by(|l, r| r.max.cmp(&l.max)): the orders a stable sort can give to
\* lines that come out of a HashMap in any order
SortedByMax(lines) ==
    {q \in [1..Cardinality(lines) -> lines] :
        /\ \A i, j \in DOMAIN q : i /= j => q[i] /= q[j]
        /\ \A i, j \in DOMAIN q : i < j => q[i].max >= q[j].max}

\* print_slow_report: urls[url_index] is in range for every sample
SlowReportInRange(summary, n_urls) ==
    \A i \in DOMAIN summary.request_times : summary.request_times[i][1] < n_urls

\* print_slow_report: what it can print
print_slow_report(summary, slow_percentile) ==
    LET lower_bound == value_at_percentile(summary.latency, slow_percentile)
        seen == {summary.request_times[i][1] : i \in DOMAIN summary.request_times}
        all == {ReportLine(summary.request_times, u) : u \in seen}
        kept == {l \in all : IsSlow(l.max, lower_bound)}
    IN {[slow_percentile |-> slow_percentile, lower_bound |-> lower_bound, lines |-> q] :
           q \in SortedByMax(kept)}

\* main: print_results, then print_slow_report when -s was given.  The option is
\* read here for the first time, so its value is drawn here.
PrintResults ==
    /\ phase = "merged"
    /\ \E p \in SlowPercentiles \cup {None} :
          IF p = None
          THEN /\ phase' = "reported"
               /\ report' = NoReport
          ELSE IF SlowReportInRange(merged, urls_len)
          THEN /\ phase' = "reported"
               /\ report' \in print_slow_report(merged, p)
          ELSE /\ phase' = "report_panicked"
               /\ report' = report
    /\ UNCHANGED <<config, urls_len, payloads_len, index_limit, count, progress, pc,
                   hb_request, ureq_response, server, result, results, joined, merged,
                   panic_cause, calls, sent, progress_lock, results_lock>>

Next ==
    \/ FromCmdline
    \/ Spawn
    \/ \E w \in Workers : Draw(w)
    \/ \E w \in Workers : NextDelay(w)
    \/ \E w \in Workers : BumpProgress(w)
    \/ \E w \in Workers : Sleep(w)
    \/ \E w \in Workers : Call(w)
    \/ \E w \in Workers : LockResults(w)
    \/ \E w \in Workers : Push(w)
    \/ Join
    \/ JoinPanicked
    \/ LockMerge
    \/ Merge
    \/ PrintResults

\* the steps of one worker thread, and those of the main thread
WorkerNext(w) ==
    \/ Draw(w) \/ NextDelay(w) \/ BumpProgress(w) \/ Sleep(w) \/ Call(w)
    \/ LockResults(w) \/ Push(w)

MainNext ==
    FromCmdline \/ Spawn \/ Join \/ JoinPanicked \/ LockMerge \/ Merge \/ PrintResults

\* every thread that can take a step is scheduled at some time
Fairness == WF_vars(MainNext) /\ \A w \in Workers : WF_vars(WorkerNext(w))

Spec == Init /\ [][Next]_vars

SpecFaulty == InitFaulty /\ [][Next]_vars

SpecGenerator == InitGenerator /\ [][Next]_vars

SpecReport == InitReport /\ [][Next]_vars

SpecSlow == InitSlow /\ [][Next]_vars

SpecDelay == InitDelay /\ [][Next]_vars

SpecFaultyFair == InitFaulty /\ [][Next]_vars /\ Fairness

TypeOK ==
    /\ phase \in {"cmdline", "rejected", "setup", "running", "merging", "merged", "aborted",
                 "reported", "report_panicked"}
    /\ progress_lock \in Workers \cup {Unlocked}
    /\ results_lock \in Workers \cup {Unlocked, MainThread}
    /\ count \in 0..(config.requests + config.concurrency)
    /\ progress \in 0..config.requests

(***************************************************************************)
(* Properties                                                              *)
(***************************************************************************)
Active == 1..config.concurrency

\* the next_index() calls that returned Some
SomeCalls == {k \in DOMAIN calls : calls[k].r >= 0}

\* every worker has seen its draw return None
AllObservedNone == \A w \in Active : pc[w] \in {"draining", "done"}

\* the indices of the requests a worker has completed, in order
Visited(w) == [i \in DOMAIN result[w].request_times |-> result[w].request_times[i][1]]

RECURSIVE SeqCount(_, _)
SeqCount(q, v) ==
    IF q = <<>> THEN 0 ELSE (IF Head(q) = v THEN 1 ELSE 0) + SeqCount(Tail(q), v)

RECURSIVE VisitedBy(_, _)
VisitedBy(ws, v) ==
    IF ws = {} THEN 0
    ELSE LET w == CHOOSE x \in ws : TRUE
         IN SeqCount(Visited(w), v) + VisitedBy(ws \ {w}, v)

\* C1: whatever the interleaving of the workers' next() calls, never more than
\* `requests` of them return Some, and once every worker has observed None exactly
\* `requests` of them have.
C1_ExactlyRequestsDraws ==
    /\ Cardinality(SomeCalls) <= config.requests
    /\ AllObservedNone => Cardinality(SomeCalls) = config.requests

C1_Witness ==
    /\ config.concurrency = 2
    /\ config.requests = GenMaxRequests
    /\ AllObservedNone
    /\ index_limit > 0
    /\ \A w \in Active : Len(result[w].request_times) > 0
    /\ Cardinality(SomeCalls) = GenMaxRequests

\* C2: a sequential supplier with a single consumer returns k mod limit on its k-th
\* call (k from 0) while k < requests and None from then on: exactly `requests`
\* values, the targets visited in that order.
C2_SequentialSingleConsumer ==
    (config.concurrency = 1 /\ config.order = "Sequential" /\ index_limit > 0) =>
        /\ \A k \in DOMAIN calls :
              calls[k].r = IF k - 1 < config.requests THEN (k - 1) % index_limit ELSE None
        /\ \A i \in DOMAIN Visited(1) : Visited(1)[i] = (i - 1) % index_limit
        /\ pc[1] \in {"draining", "done"} =>
              /\ Len(calls) = config.requests + 1
              /\ Len(Visited(1)) = config.requests

C2_Witness ==
    /\ config.concurrency = 1
    /\ config.order = "Sequential"
    /\ index_limit = 2
    /\ config.requests = 3
    /\ pc[1] = "done"
    /\ [k \in DOMAIN calls |-> calls[k].r] = <<0, 1, 0, None>>
    /\ Visited(1) = <<0, 1, 0>>

\* C3: with sequential ordering and concurrent callers every call number is handed
\* out exactly once, in counter order, with the value (call number) mod limit; the
\* indices the workers visit together are {k mod limit : 0 <= k < requests} as a
\* multiset.
C3_SequentialRoundRobin ==
    (config.order = "Sequential" /\ index_limit > 0) =>
        /\ \A k \in DOMAIN calls :
              /\ calls[k].c = k - 1
              /\ calls[k].r >= 0 => calls[k].r = calls[k].c % index_limit
        /\ AllObservedNone =>
              \A v \in 0..(index_limit - 1) :
                  VisitedBy(Active, v) =
                      Cardinality({k \in 0..(config.requests - 1) : k % index_limit = v})

C3_Witness ==
    /\ config.concurrency = 2
    /\ config.order = "Sequential"
    /\ index_limit = 2
    /\ config.requests = 3
    /\ AllObservedNone
    /\ Visited(1) = <<1>>
    /\ Visited(2) = <<0, 0>>

\* C4: the random supplier returns Some on exactly `requests` calls and every value it
\* returns is in [0, limit); values may repeat.
C4_RandomInRange ==
    config.order = "Random" =>
        /\ \A k \in DOMAIN calls : calls[k].r >= 0 => calls[k].r < index_limit
        /\ \A w \in Active :
              hb_request[w] /= NoRequest =>
                  (0 <= hb_request[w].url_index /\ hb_request[w].url_index < index_limit)
        /\ Cardinality(SomeCalls) <= config.requests
        /\ AllObservedNone => Cardinality(SomeCalls) = config.requests

C4_Witness ==
    /\ config.order = "Random"
    /\ index_limit = 2
    /\ config.requests = 3
    /\ AllObservedNone
    /\ [k \in 1..3 |-> calls[k].r] = <<1, 0, 1>>

\* C5: exhaustion is permanent: after a call that returned None, every later call,
\* by any thread, returns None.
C5_ExhaustionPermanent ==
    \A j, k \in DOMAIN calls : (j < k /\ calls[j].r = None) => calls[k].r = None

C5_Witness ==
    /\ config.concurrency = 2
    /\ config.requests > 0
    /\ Len(calls) = config.requests + 2
    /\ calls[1].r >= 0
    /\ calls[Len(calls) - 1].r = None
    /\ calls[Len(calls)].r = None

\* the list a worker indexes with the index it drew
IndexedLen == IF IsWrite(config.http_method) THEN payloads_len ELSE urls_len

\* C6: for every accepted command line, every index a worker holds is a position of
\* the list the worker indexes with it (the URLs for GET, the payloads for POST and
\* PUT, whose single URL exists), and no worker panics on an index out of range.
C6_IndexInRange ==
    \A w \in Workers :
        /\ panic_cause[w] /= "index_out_of_bounds"
        /\ hb_request[w] /= NoRequest =>
              /\ 0 <= hb_request[w].url_index
              /\ hb_request[w].url_index < IndexedLen
              /\ IsWrite(config.http_method) => urls_len = 1

C6_Witness ==
    /\ config.http_method = "Post"
    /\ config.order = "Random"
    /\ payloads_len = 2
    /\ \E w \in Workers : pc[w] = "draw" /\ Visited(w) = <<1, 0>>

\* C7: a worker goes Running -> Draining -> Done and never back: it enters Draining
\* from a draw only, leaves it to Done only, stays Done, and from Draining on it
\* draws nothing and dispatches nothing (the counter moves only by a worker that is
\* at its draw, and the worker's request, response and statistics stay as they are).
C7_WorkerStep(w) ==
    /\ pc[w] = "draining" => pc'[w] \in {"draining", "done"}
    /\ pc[w] = "done" => pc'[w] = "done"
    /\ pc'[w] = "draining" => pc[w] \in {"draw", "draining"}
    /\ pc'[w] = "done" => pc[w] \in {"draining", "done"}
    /\ pc[w] \in {"draining", "done"} =>
          /\ result'[w] = result[w]
          /\ hb_request'[w] = hb_request[w]
          /\ ureq_response'[w] = ureq_response[w]

C7_RunningDrainingDone ==
    [][/\ \A w \in Workers : C7_WorkerStep(w)
       /\ count' /= count => \E w \in Workers : pc[w] = "draw" /\ pc'[w] /= "draw"]_vars

C7_Witness ==
    /\ pc[1] = "done"
    /\ Len(result[1].request_times) > 0
    /\ pc[2] = "call"

\* a worker's call returns in this step
CallReturns(w) == pc[w] = "call" /\ pc'[w] /= "call" /\ panic_cause'[w] /= "index_out_of_bounds"

\* the request failed: no response, an error status, or a body that did not drain
IsFailure(resp) == resp.kind \in {"Transport", "Status"} \/ ~resp.body_ok

Errors(res) == res.request_errors + res.response_errors

TallyOf(res, code) == IF code \in DOMAIN res.status THEN res.status[code] ELSE 0

\* C8: a request that fails in any way does not abort the worker: the failure is
\* counted in the worker's statistics and the worker is at its next draw, the failed
\* request dropped.
C8_FailureNeverAborts ==
    [][\A w \in Workers :
          (CallReturns(w) /\ IsFailure(ureq_response'[w])) =>
              /\ pc'[w] = "draw"
              /\ Errors(result'[w]) = Errors(result[w]) + 1
              /\ hb_request'[w] = NoRequest]_vars

\* C9: a request counted as a request_error changes request_errors alone: nothing is
\* recorded into the latency histogram and no sample is appended.
C9_RequestErrorFrame ==
    [][\A w \in Workers :
          result'[w].request_errors = result[w].request_errors + 1 =>
              /\ result'[w].latency = result[w].latency
              /\ result'[w].request_times = result[w].request_times
              /\ result'[w].status = result[w].status
              /\ result'[w].response_errors = result[w].response_errors]_vars

\* C10: request_errors grows only when the transport produced no response; a request
\* answered with a status line, 4xx and 5xx included, has its status code tallied
\* and is no request_error.
C10_StatusLineTallied ==
    [][\A w \in Workers :
          CallReturns(w) =>
              LET resp == ureq_response'[w] IN
              /\ resp.kind \in {"Ok", "Status"} =>
                    /\ TallyOf(result'[w], resp.status) = TallyOf(result[w], resp.status) + 1
                    /\ result'[w].request_errors = result[w].request_errors
              /\ result'[w].request_errors > result[w].request_errors =>
                    resp.kind = "Transport"]_vars

\* the number of samples a histogram holds at one value
CountAt(h, v) == IF v \in DOMAIN h THEN h[v] ELSE 0

\* C11: when a response with a status line arrives and draining its body fails, the
\* worker counts one response_error, tallies the status code once, and records the
\* duration measured up to the failure as one sample of the latency histogram.
C11_ResponseErrorRecorded ==
    [][\A w \in Workers :
          LET resp == ureq_response'[w] IN
          (CallReturns(w) /\ resp.kind = "Ok" /\ ~resp.body_ok) =>
              /\ result'[w].response_errors = result[w].response_errors + 1
              /\ result'[w].request_errors = result[w].request_errors
              /\ TallyOf(result'[w], resp.status) = TallyOf(result[w], resp.status) + 1
              /\ CountAt(result'[w].latency, resp.elapsed_ms)
                     = CountAt(result[w].latency, resp.elapsed_ms) + 1
              /\ Histogram_len(result'[w].latency) = Histogram_len(result[w].latency) + 1]_vars

C11_Witness ==
    \E w \in Workers :
        /\ pc[w] = "draw"
        /\ ureq_response[w].kind = "Ok"
        /\ ~ureq_response[w].body_ok
        /\ ureq_response[w].elapsed_ms = 1
        /\ result[w].response_errors = 1
        /\ result[w].status = (200 :> 1)
        /\ result[w].latency = (1 :> 1)

\* the sum of all status-code counts
StatusTotal(res) == SumOver(res.status, DOMAIN res.status)

\* the main thread holds the aggregate run_test returned
Returned == phase \in {"merged", "reported", "report_panicked"}

\* C12: every request a worker has executed is classified as exactly one of
\* request_error, response_error or success: in each worker's statistics the status
\* counts and request_errors add up to the number of requests it has executed,
\* response_errors is at most the sum of the status counts, and the aggregate's
\* status counts and request_errors add up to `requests`.
C12_EveryRequestClassified ==
    /\ \A w \in Workers :
          /\ StatusTotal(result[w]) + result[w].request_errors = Len(sent[w])
          /\ result[w].response_errors <= StatusTotal(result[w])
    /\ Returned =>
          /\ StatusTotal(merged) + merged.request_errors = config.requests
          /\ merged.response_errors <= StatusTotal(merged)

\* the sum over the workers of the run of a number each of them holds
OverWorkers(f) == SumOver(f, Active)

\* C13: when run_test has returned, the statistics of each of the `concurrency`
\* workers, those that drew no request included, are in the aggregate exactly once:
\* every status count, request_errors, response_errors, the histogram's count at
\* every value and in total, and the length of the sample list are the sums of the
\* workers' values.
C13_MergedOnce ==
    Returned =>
        /\ Len(results) = config.concurrency
        /\ DOMAIN merged.status \subseteq StatusCodes
        /\ \A code \in StatusCodes :
              TallyOf(merged, code) = OverWorkers([w \in Active |-> TallyOf(result[w], code)])
        /\ merged.request_errors = OverWorkers([w \in Active |-> result[w].request_errors])
        /\ merged.response_errors = OverWorkers([w \in Active |-> result[w].response_errors])
        /\ DOMAIN merged.latency \subseteq LatenciesMs
        /\ \A v \in LatenciesMs :
              CountAt(merged.latency, v) = OverWorkers([w \in Active |-> CountAt(result[w].latency, v)])
        /\ Histogram_len(merged.latency)
              = OverWorkers([w \in Active |-> Histogram_len(result[w].latency)])
        /\ Len(merged.request_times)
              = OverWorkers([w \in Active |-> Len(result[w].request_times)])

C13_Witness ==
    /\ phase = "merged"
    /\ config.concurrency = 2
    /\ result[1] = BenchResult_new
    /\ result[2].request_errors = 1
    /\ result[2].status = (200 :> 1)
    /\ merged.request_errors = 1
    /\ Len(merged.request_times) = 2

\* the orders in which n results can be merged
MergeOrders(n) == {p \in [1..n -> 1..n] : \A i, j \in 1..n : i /= j => p[i] /= p[j]}

\* the results handed over so far, merged into an empty aggregate in the order p
MergedIn(p) == MergeResults([i \in DOMAIN p |-> results[p[i]]], BenchResult_new)

\* the samples of a list as a multiset agree with those of another list
SameSamples(q, r) ==
    /\ Len(q) = Len(r)
    /\ \A i \in DOMAIN q : SeqCount(q, q[i]) = SeqCount(r, q[i])

\* C14: whatever the order in which the workers' statistics are merged into an empty
\* aggregate, the status-code totals, the request_error and response_error totals
\* and the histogram are the same as in the order the workers handed them over, and
\* so the same in every order; the sample list holds the same samples, in an order
\* that may differ.
C14_MergeOrderFree ==
    LET given == MergeResults(results, BenchResult_new) IN
    \A p \in MergeOrders(Len(results)) :
        LET other == MergedIn(p) IN
        /\ other.status = given.status
        /\ other.request_errors = given.request_errors
        /\ other.response_errors = given.response_errors
        /\ other.latency = given.latency
        /\ \A pct \in SlowPercentiles :
              value_at_percentile(other.latency, pct) = value_at_percentile(given.latency, pct)
        /\ SameSamples(other.request_times, given.request_times)

C14_Witness ==
    /\ Len(results) = 2
    /\ results[1].request_errors = 1
    /\ results[2].response_errors = 1
    /\ results[2].latency = (1 :> 1)
    /\ MergedIn(<<1, 2>>).request_times /= MergedIn(<<2, 1>>).request_times
    /\ MergedIn(<<1, 2>>).latency = (0 :> 1) @@ (1 :> 1)

\* the number of requests the workers have executed
Dispatched == OverWorkers([w \in Active |-> Len(sent[w])])

\* C15: with at least one worker, a finite budget, requests that each complete with
\* some outcome and every thread scheduled fairly, the run goes on to the end of the
\* budget: at some time every worker is Done, run_test has returned the aggregate,
\* and exactly `requests` requests have been executed.
C15_RunsToExhaustion ==
    <>(/\ \A w \in Active : pc[w] = "done"
       /\ Returned
       /\ Dispatched = config.requests)

\* no worker thread was started and nothing was drawn or sent
NothingStarted ==
    /\ \A w \in Workers : pc[w] = "idle" /\ sent[w] = <<>> /\ hb_request[w] = NoRequest
    /\ count = 0
    /\ calls = <<>>
    /\ results = <<>>

\* C16: a POST or PUT run with no payload, or with a number of URLs other than one,
\* is rejected while the command line is read: the run never gets past that, no
\* worker is started and no request is sent.
C16_WriteMisconfigRejected ==
    (IsWrite(config.http_method) /\ (payloads_len = 0 \/ urls_len /= 1)) =>
        /\ phase \in {"cmdline", "rejected"}
        /\ NothingStarted

C16_Witness ==
    /\ phase = "rejected"
    /\ config.http_method = "Put"
    /\ payloads_len = 2
    /\ urls_len = 2
    /\ NothingStarted

\* C17: an empty target list (GET over an empty URL file) is rejected while the
\* command line is read, whatever the budget: no worker is started and the index
\* supplier is never called with limit = 0.
C17_EmptyTargetsRejected ==
    (config.http_method = "Get" /\ urls_len = 0) =>
        /\ phase \in {"cmdline", "rejected"}
        /\ NothingStarted

\* the payloads a worker has sent, in order
PayloadsSent(w) == [i \in DOMAIN sent[w] |-> sent[w][i].payload]

\* C18: for POST and PUT every request goes to the single configured URL, urls[0],
\* and the drawn index selects the payload; with sequential order, P payloads,
\* requests = P and one worker, each payload is sent exactly once, in the order
\* 0..P-1.
C18_WriteSendsPayloads ==
    IsWrite(config.http_method) =>
        /\ \A w \in Workers : \A i \in DOMAIN sent[w] :
              /\ sent[w][i].url = 0
              /\ 0 <= sent[w][i].payload /\ sent[w][i].payload < payloads_len
        /\ \A w \in Workers : PayloadsSent(w) = Visited(w)
        /\ (/\ config.order = "Sequential"
            /\ config.concurrency = 1
            /\ config.requests = payloads_len
            /\ pc[1] \in {"draining", "done"}) =>
               PayloadsSent(1) = [i \in 1..payloads_len |-> i - 1]

C18_Witness ==
    /\ config.http_method = "Post"
    /\ config.order = "Sequential"
    /\ config.concurrency = 1
    /\ config.requests = 2
    /\ payloads_len = 2
    /\ pc[1] = "done"
    /\ sent[1] = <<[url |-> 0, payload |-> 0], [url |-> 0, payload |-> 1]>>

\* the positions in the aggregate's sample list of the samples of one target
SamplesOf(u) == {i \in DOMAIN merged.request_times : merged.request_times[i][1] = u}

LatencyAt(i) == merged.request_times[i][2]

MaxLatency(u) == CHOOSE m \in {LatencyAt(i) : i \in SamplesOf(u)} :
                     \A i \in SamplesOf(u) : LatencyAt(i) <= m

MinLatency(u) == CHOOSE m \in {LatencyAt(i) : i \in SamplesOf(u)} :
                     \A i \in SamplesOf(u) : LatencyAt(i) >= m

SumLatency(u) == SumOver([i \in SamplesOf(u) |-> LatencyAt(i)], SamplesOf(u))

C20_ReportAlways ==
    <>(/\ phase = "reported"
       /\ StatusTotal(merged) + merged.request_errors = config.requests)

\* the worker holds a request whose delay next_delay() returned
HoldsDelay(w) == pc[w] \in {"progress", "sleep", "call"}

\* C21: the constant supplier returns exactly the configured delay, on every call
\* and to every thread: whenever a worker holds a drawn request, its delay is the
\* configured one.
C21_ConstantDelay ==
    config.delay_distrib = "Constant" =>
        \A w \in Workers : HoldsDelay(w) => hb_request[w].sleep = config.delay_ms * 1000

C21_Witness ==
    /\ config.delay_distrib = "Constant"
    /\ config.delay_ms = 2
    /\ pc[1] = "sleep" /\ hb_request[1].sleep = 2000
    /\ pc[2] = "call" /\ hb_request[2].sleep = 2000

\* C22: with a bound B > 0 every delay the uniform supplier returns is at least 0 and
\* below B, the bound itself never; the values of the range are possible results
\* (the witness reaches both of its ends).
C22_UniformBelowBound ==
    (config.delay_distrib = "Uniform" /\ config.delay_ms > 0) =>
        \A w \in Workers :
            /\ panic_cause[w] /= "next_delay"
            /\ HoldsDelay(w) =>
                  (0 <= hb_request[w].sleep /\ hb_request[w].sleep < config.delay_ms * 1000)

C22_Witness ==
    /\ config.delay_distrib = "Uniform"
    /\ config.delay_ms = 2
    /\ pc[1] = "sleep" /\ hb_request[1].sleep = 1999
    /\ pc[2] = "sleep" /\ hb_request[2].sleep = 0

\* C23: with requests = 0 the generator is exhausted at once: every draw returns
\* None, the first of each worker included, no request is drawn or sent, the
\* progress bar stays at 0, and the aggregate is empty: no status, no error, no
\* latency sample, no entry in the sample list.
C23_ZeroRequests ==
    config.requests = 0 =>
        /\ \A k \in DOMAIN calls : calls[k].r = None
        /\ \A w \in Workers :
              /\ pc[w] \in {"idle", "draw", "draining", "done"}
              /\ hb_request[w] = NoRequest
              /\ sent[w] = <<>>
              /\ result[w] = BenchResult_new
        /\ progress = 0
        /\ merged = BenchResult_new
        /\ \A i \in DOMAIN results : results[i] = BenchResult_new

C23_Witness ==
    /\ config.requests = 0
    /\ config.concurrency = 2
    /\ config.order = "Random"
    /\ index_limit = 2
    /\ phase = "merged"
    /\ Len(calls) = 2
    /\ Len(results) = 2
    /\ merged = BenchResult_new

\* the workers inside next() with an index drawn and the progress bar not yet moved
InsideNext == {w \in Workers : pc[w] \in {"delay", "progress"}}

\* the next() calls that have returned Some
ReturnedSome == Cardinality(SomeCalls) - Cardinality(InsideNext)

\* C24: the progress counter never goes down and moves by one at a time; it counts
\* exactly the generator calls that have returned Some, none of those that returned
\* None; it is never above the number of successful index draws, hence never above
\* `requests`; and it equals `requests` once every worker is Done.
C24_ProgressCounts ==
    /\ [](/\ progress = ReturnedSome
          /\ progress <= Cardinality(SomeCalls)
          /\ progress <= config.requests
          /\ (\A w \in Active : pc[w] = "done") => progress = config.requests)
    /\ [][/\ progress' \in {progress, progress + 1}
          /\ \A w \in Workers :
                (pc[w] = "draw" /\ pc'[w] = "draining") => progress' = progress]_vars

C24_Witness ==
    /\ config.concurrency = 2
    /\ config.requests = 3
    /\ pc[1] = "done" /\ pc[2] = "done"
    /\ Len(result[1].request_times) > 0
    /\ Len(result[2].request_times) > 0
    /\ progress = 3

\* a worker acquires the mutex of the progress bar, or that of results, in this step
AcquiresProgress(w) == progress_lock /= w /\ progress_lock' = w

AcquiresResults(w) == results_lock /= w /\ results_lock' = w

\* C25: in its loop a worker shares nothing but the atomic draw counter: it acquires
\* no mutex for a draw or for a request, and the one lock it ever acquires is that
\* of the hand-over of its statistics, after its loop has ended.
C25_LoopAcquiresNoLock ==
    [][\A w \in Workers :
          /\ ~AcquiresProgress(w)
          /\ AcquiresResults(w) => pc[w] = "draining"]_vars

\* every worker of the run has completed
AllDone == \A w \in Active : pc[w] = "done"

\* C26 as stated: the aggregate is mutated only by a thread that holds the merge
\* mutex, and is read-only once the last worker has completed.
C26_ReadOnlyAfterWorkers ==
    [][/\ merged' /= merged => results_lock /= Unlocked
       /\ (phase = "running" /\ AllDone) => merged' = merged
       /\ (phase /= "running" /\ AllDone) => (merged' = merged /\ results' = results)]_vars

\* C26, amended: the aggregate is built by the main thread after every worker has
\* completed, and changes only in a step of the main thread holding the mutex of
\* results; the shared list of results changes only in a step of the thread that
\* holds its mutex, a worker pushing its own statistics or the main thread merging;
\* both are read-only once run_test has returned.
C26_MutatedUnderLock ==
    [][/\ merged' /= merged =>
             (results_lock = MainThread /\ phase = "merging" /\ AllDone)
       /\ results' /= results =>
             \/ results_lock = MainThread /\ phase = "merging"
             \/ /\ results_lock \in Workers
                /\ pc[results_lock] = "draining"
                /\ results' = Append(results, result[results_lock])
       /\ Returned => (merged' = merged /\ results' = results)]_vars

C26_Witness ==
    /\ phase = "reported"
    /\ config.concurrency = 2
    /\ results_lock = Unlocked
    /\ Len(results) = 2
    /\ Len(result[1].request_times) = 1
    /\ Len(result[2].request_times) = 1
    /\ Len(merged.request_times) = 2

\* the worker sleeps for its delay, or waits for its call and the body of the response
Blocked(w) == pc[w] \in {"sleep", "call"}

\* a holder of the mutex of the progress bar is inside its critical section
HolderRuns == progress_lock \in Workers => pc[progress_lock] = "progress"

\* C27: a worker that sleeps for its delay or waits on its call holds no lock and
\* blocks no other worker: in every such state each other worker of the loop can
\* take its next step, the draw from the generator and the dispatch of its request
\* included, unless a third worker, itself running, holds the progress mutex.
C27_BlockedHoldsNothing ==
    \A w \in Active :
        (phase = "running" /\ Blocked(w)) =>
            /\ progress_lock /= w
            /\ results_lock /= w
            /\ HolderRuns
            /\ \A v \in Active \ {w} :
                  /\ pc[v] = "draw" => ENABLED Draw(v)
                  /\ pc[v] = "delay" => (ENABLED NextDelay(v) \/ progress_lock \in Workers \ {v, w})
                  /\ pc[v] = "progress" => ENABLED BumpProgress(v)
                  /\ pc[v] = "call" => ENABLED Call(v)

C27_Witness ==
    /\ phase = "running"
    /\ config.delay_ms = 2
    /\ pc[1] = "sleep" /\ hb_request[1].sleep = 2000
    /\ pc[2] = "delay"
    /\ progress_lock = Unlocked
    /\ ENABLED NextDelay(2)

\* C28: the negative-exponential supplier never draws U = 0, so the delay it returns
\* is always finite: no worker ever holds the saturated delay.
C28_DelayFinite ==
    config.delay_distrib = "NegativeExponential" =>
        \A w \in Workers : HoldsDelay(w) => hb_request[w].sleep < SaturatedUs

\* C29: next_delay() never fails for an accepted configuration, and with delay = 0
\* every distribution returns the zero delay, the uniform one included.
C29_NextDelayTotal ==
    /\ \A w \in Workers : panic_cause[w] /= "next_delay"
    /\ config.delay_ms = 0 =>
          \A w \in Workers : HoldsDelay(w) => hb_request[w].sleep = 0

\* C30: every target index stored in the samples of the aggregate is a position of
\* the URL list, for every method, so that the slow-target report never reads the
\* URL list out of range.
C30_SampleIndexInUrls ==
    /\ Returned => SlowReportInRange(merged, urls_len)
    /\ phase /= "report_panicked"

\* the draws that returned None
NoneCalls == {k \in DOMAIN calls : calls[k].r = None}

\* C31: the shared draw counter is never above requests + concurrency, because each
\* worker makes at most one draw that returns None; the counter moves by one per
\* draw and the values the draws fetch are 0, 1, 2, ... in order, so it never wraps
\* around and no Some result comes back after exhaustion.
C31_CounterBounded ==
    /\ count <= config.requests + config.concurrency
    /\ Cardinality(NoneCalls) <= config.concurrency
    /\ count = Len(calls)
    /\ \A k \in DOMAIN calls : calls[k].c = k - 1
    /\ config.requests + config.concurrency <= UsizeMax

C31_Witness ==
    /\ config.concurrency = 2
    /\ config.requests = GenMaxRequests
    /\ index_limit > 0
    /\ count = GenMaxRequests + 2
    /\ Cardinality(NoneCalls) = 2
    /\ AllObservedNone

\* C32: recording the latency of a completed request never aborts the worker,
\* whatever the value measured: a response that took longer than the upper bound of
\* the histogram is tracked like any other and the run still returns its aggregate.
C32_RecordNeverAborts ==
    /\ \A w \in Workers : panic_cause[w] /= "record"
    /\ \A w \in Active :
          ureq_response[w].elapsed_ms > HistogramHigh => pc[w] /= "panicked"

====
